---- MODULE Spec2Model ----
(***************************************************************************)
(* A model of the loan service of lucval/james: the user store and the     *)
(* JWT life cycle (loan/models.py, class User), the loan and payment       *)
(* ledger (classes Loan and Payment) and the request handlers of           *)
(* loan/app.py.                                                            *)
(*                                                                         *)
(* Conventions.  A Python value that may be None, missing from a payload   *)
(* or of a wrong type is a tagged record [t |-> ...].  Time is in whole    *)
(* seconds (PyJWT turns 'exp' and the current time into whole seconds).    *)
(* A date is a wall-clock reading with an optional UTC offset, both in     *)
(* hours.  Money read from a request is in thousandths, stored payment     *)
(* amounts are in hundredths (the code rounds to 2 decimals).              *)
(***************************************************************************)
EXTENDS Integers, Sequences, FiniteSets, TLC

VARIABLES
    users,      \* the users table
    now,        \* the clock, datetime.utcnow(), in seconds
    issued,     \* the tokens login has handed out: [token, iat, email]
    tzlocal,    \* the UTC offset of tz.tzlocal() on the server
    loans,      \* the loans table
    payments,   \* the payments table, in the order of the autoincrement id
    given,      \* history: loan id -> the aware datetime the loan was created with
    last        \* the call just made and what it returned or raised

vars == <<users, now, issued, tzlocal, loans, payments, given, last>>

(***************************************************************************)
(* Bounds of the model.                                                    *)
(***************************************************************************)
MaxTime == 1000
MaxTokens == 1
MaxLoans == 2
MaxPayments == 2

(***************************************************************************)
(* Python values.                                                          *)
(***************************************************************************)
None == [t |-> "None"]
Absent == [t |-> "absent"]
Str(s) == [t |-> "str", v |-> s]
Int_(n) == [t |-> "int", v |-> n]
Float(m) == [t |-> "float", v |-> m]

NoResult == [op |-> "none"]

(***************************************************************************)
(* Module constants, loan/models.py lines 29-31.                           *)
(***************************************************************************)
JWT_SECRET == "secret"
JWT_EXP_DELTA_SECONDS == 600

(***************************************************************************)
(* Exceptions, loan/models.py lines 35-48, and the errors that are not of  *)
(* these classes, which handle_error reports as "Internal".                *)
(***************************************************************************)
Raise(kind, msg) == [kind |-> kind, msg |-> msg]
Ok(val) == [kind |-> "ok", val |-> val]

(***************************************************************************)
(* The users table.  A row is [id, email, h_password, salt]; the column    *)
(* 'email' is unique (line 74), 'id' is the primary key (line 73).         *)
(***************************************************************************)
Emails == {"a@x", "b@x"}
BadEmails == {"nomail"}
Passwords == {"p1", "p2"}
Salts == {"s1", "s2"}

\* bcrypt.hashpw(password, salt): a collision-free digest of both arguments.
hashpw(password, salt) == <<"bcrypt", salt, password>>

\* '@' in email
HasAt(email) == email \in Emails

UserByEmailIn(store, email) == {u \in store : u.email = email}
UserByEmail(email) == UserByEmailIn(users, email)
UserById(id) == {u \in users : u.id = id}

\* uuid.uuid4(): an identifier no stored row carries.
NewUserId == Cardinality(users) + 1

\* User._validate_input (the validator runs when the constructor sets email).
User_validate_input(email) ==
    IF email.t = "None" THEN Raise("BadRequest", "'email' field required")
    ELSE IF ~HasAt(email.v) THEN Raise("BadRequest", "Invalid email address provided")
    ELSE Ok(email.v)

\* Variant: the email column without its unique constraint.
UsersCommitFails_no_unique(row) == UserById(row.id) # {}

\* db.session.add(self); db.session.commit(): the commit fails with an
\* IntegrityError when the unique column email is already taken.
UsersCommitFails(row) == UserByEmail(row.email) # {} \/ UserById(row.id) # {}

\* User.add: the table after User(email=email).add(password), salt drawn by
\* bcrypt.gensalt().  The IntegrityError is caught and rolled back.
User_add(email, password, salt) ==
    LET row == [id |-> NewUserId, email |-> email, salt |-> salt,
                h_password |-> hashpw(password, salt)]
    IN IF UsersCommitFails(row) THEN users ELSE users \cup {row}

(***************************************************************************)
(* JSON web tokens.  jwt.encode signs a payload with a key; jwt.decode     *)
(* fails with DecodeError on anything that is not a token signed with the  *)
(* key it is given, with ExpiredSignatureError when 'exp' is in the past.  *)
(***************************************************************************)
jwt_encode(payload, key) == [t |-> "jwt", key |-> key, payload |-> payload]

jwt_decode(token, key, time) ==
    IF token.t # "jwt" THEN Raise("DecodeError", "Not enough segments")
    ELSE IF token.key # key THEN Raise("DecodeError", "Signature verification failed")
    ELSE IF "exp" \in DOMAIN token.payload /\ token.payload.exp < time
         THEN Raise("ExpiredSignatureError", "Signature has expired")
    ELSE Ok(token.payload)

\* User.login on a given users table.  password.encode raises AttributeError
\* on a password that is not a string; the line is reached only when the
\* lookup found a row.
User_login_in(store, email, password) ==
    LET found == UserByEmailIn(store, email)
        failed == Raise("BadRequest", <<"User '", email, "' login failed">>)
    IN IF found = {} THEN failed
       ELSE LET user == CHOOSE u \in found : TRUE
            IN IF password.t # "str"
               THEN Raise("AttributeError", <<"object has no attribute 'encode'">>)
               ELSE IF user.h_password # hashpw(password.v, user.salt) THEN failed
               ELSE Ok(jwt_encode([user_id |-> user.id,
                                   exp |-> now + JWT_EXP_DELTA_SECONDS], JWT_SECRET))

\* User.login
User_login(email, password) == User_login_in(users, email, password)

\* Variant: authenticate that never finds a token expired.
User_authenticate_swallow_expiry(jwt_token) ==
    IF jwt_token.t \in {"None", "empty"} THEN Raise("Forbidden", "Access denied")
    ELSE LET dec == jwt_decode(jwt_token, JWT_SECRET, 0)
         IN IF dec.kind = "DecodeError" THEN Raise("BadRequest", "Token is invalid")
            ELSE IF "user_id" \notin DOMAIN dec.val
                 THEN Raise("BadRequest", "Token is corrupted")
            ELSE IF UserById(dec.val.user_id) = {}
                 THEN Raise("Unauthorized", "User is not authorized")
            ELSE Ok(dec.val.user_id)

\* Variant: authenticate without the lookup of the user.
User_authenticate_unknown_user_passes(jwt_token) ==
    IF jwt_token.t \in {"None", "empty"} THEN Raise("Forbidden", "Access denied")
    ELSE LET dec == jwt_decode(jwt_token, JWT_SECRET, now)
         IN IF dec.kind = "DecodeError" THEN Raise("BadRequest", "Token is invalid")
            ELSE IF dec.kind = "ExpiredSignatureError"
                 THEN Raise("BadRequest", "Token is expired")
            ELSE IF "user_id" \notin DOMAIN dec.val
                 THEN Raise("BadRequest", "Token is corrupted")
            ELSE Ok(dec.val.user_id)

\* User.authenticate.  The code returns nothing on success; the model returns
\* the user id it looked up.
User_authenticate(jwt_token) ==
    IF jwt_token.t \in {"None", "empty"} THEN Raise("Forbidden", "Access denied")
    ELSE LET dec == jwt_decode(jwt_token, JWT_SECRET, now)
         IN IF dec.kind = "DecodeError" THEN Raise("BadRequest", "Token is invalid")
            ELSE IF dec.kind = "ExpiredSignatureError"
                 THEN Raise("BadRequest", "Token is expired")
            ELSE IF "user_id" \notin DOMAIN dec.val
                 THEN Raise("BadRequest", "Token is corrupted")
            ELSE IF UserById(dec.val.user_id) = {}
                 THEN Raise("Unauthorized", "User is not authorized")
            ELSE Ok(dec.val.user_id)

(***************************************************************************)
(* Dates.  A date string of a request is [t |-> "date", wall, aware, off]: *)
(* the wall-clock reading it spells and, when aware, its UTC offset.  An   *)
(* aware datetime is [wall, off]; Python orders aware datetimes by the     *)
(* instant they denote.  A DateTime column keeps the wall-clock reading    *)
(* alone (line 291 re-attaches a zone to what it loads).                   *)
(***************************************************************************)
DateStr(w, o) == [t |-> "date", wall |-> w, aware |-> TRUE, off |-> o]
NaiveStr(w) == [t |-> "date", wall |-> w, aware |-> FALSE, off |-> 0]
BadDateStr == Str("not-a-date")

Aware(w, o) == [wall |-> w, off |-> o]
Instant(dt) == dt.wall - dt.off
ToColumn(dt) == dt.wall

\* format_date
format_date(date) ==
    IF date.t = "date"
    THEN Ok(IF date.aware THEN Aware(date.wall, date.off)
                          ELSE Aware(date.wall, tzlocal))
    ELSE Raise("BadRequest", "Invalid 'date' provided, please use ISO-8601 standard")

\* Loan._validate_date and Payment._validate_date
validate_date(date) ==
    IF date.t = "None" THEN Raise("BadRequest", "'date' field required")
    ELSE format_date(date)

\* round(x, 2) of a positive x given in thousandths, in hundredths.  The
\* inputs of the model never end in 5, where the binary value of the float
\* decides.
Round2(m) == (m + 5) \div 10

(***************************************************************************)
(* Loan: validators, constructor, get, create.                             *)
(* A stored row is [id, amount, term, rate, date]; rate is in hundredths.  *)
(***************************************************************************)
\* Loan._validate_amount, for 'amount' and 'term'
Loan_validate_amount(key, value) ==
    IF value.t = "None" THEN Raise("BadRequest", <<"'", key, "' field required">>)
    ELSE IF value.t # "int" \/ value.v <= 0
         THEN Raise("BadRequest", <<"'", key, "' must be a positive integer">>)
    ELSE Ok(value.v)

\* Loan._validate_rate: the value kept is round(rate, 2), in hundredths.
Loan_validate_rate(rate) ==
    IF rate.t = "None" THEN Raise("BadRequest", "'rate' field required")
    ELSE IF rate.t # "float" \/ rate.v <= 0 \/ rate.v > 1000
         THEN Raise("BadRequest", "'rate' must be a positive percentage")
    ELSE Ok(Round2(rate.v))

\* A field missing from the payload runs no validator and stays unset; the
\* model keeps the placeholder 'unset' for it and lists it in 'unset'.
Field(value, validated, unset) == IF value.t = "absent" THEN Ok(unset) ELSE validated
Unset(payload, keys) == {k \in keys : payload[k].t = "absent"}

\* The first failure among the validators' results.  The constructor sets the
\* fields in the order of the payload's keys; every validator raises
\* BadRequest, so the order decides the message alone.
FirstError(results) ==
    LET bad == {i \in 1..Len(results) : results[i].kind # "ok"}
    IN IF bad = {} THEN Ok(TRUE)
       ELSE results[CHOOSE i \in bad : \A j \in bad : i <= j]

\* Loan(**payload): every field of the payload goes through its validator;
\* the first failure is raised.
Loan_init(payload) ==
    LET a == Field(payload.amount, Loan_validate_amount("amount", payload.amount), 0)
        n == Field(payload.term, Loan_validate_amount("term", payload.term), 0)
        r == Field(payload.rate, Loan_validate_rate(payload.rate), 0)
        d == Field(payload.date, validate_date(payload.date), Aware(0, 0))
        err == FirstError(<<a, n, r, d>>)
    IN IF err.kind # "ok" THEN err
       ELSE Ok([amount |-> a.val, term |-> n.val, rate |-> r.val, date |-> d.val,
                unset |-> Unset(payload, {"amount", "term", "rate", "date"})])

LoanById(loan_id) == {l \in loans : l.id = loan_id}

\* Loan.get
Loan_get(loan_id) ==
    IF LoanById(loan_id) = {}
    THEN Raise("NotFound", <<"Loan '", loan_id, "' not found">>)
    ELSE Ok(CHOOSE l \in LoanById(loan_id) : TRUE)

\* uuid.uuid4()
NewLoanId == Cardinality(loans) + 1

\* The loans row of a constructed loan.
LoanRow(loan, id) ==
    [id |-> id, amount |-> loan.amount, term |-> loan.term, rate |-> loan.rate,
     date |-> ToColumn(loan.date)]

\* Loan.create: every column is NOT NULL, so a loan with an unset field
\* fails the commit with an IntegrityError, which is rolled back.
\* The result is [res, loans]: what is raised or returned, and the table.
Loan_create(loan) ==
    IF loan.unset # {}
    THEN [res |-> Raise("BadRequest", "Invalid loan record provided"), loans |-> loans]
    ELSE [res |-> Ok(NewLoanId), loans |-> loans \cup {LoanRow(loan, NewLoanId)}]

(***************************************************************************)
(* Payment: validators, constructor, create, list.                         *)
(* A stored row is [id, loan_id, date, amount, payment]; amount is in      *)
(* hundredths; the table is kept in the order of the autoincrement id.     *)
(***************************************************************************)
\* Payment._validate_amount: the value kept is round(amount, 2)
Payment_validate_amount(amount) ==
    IF amount.t = "None" THEN Raise("BadRequest", "'amount' field required")
    ELSE IF amount.t # "float" \/ amount.v <= 0
         THEN Raise("BadRequest", "'amount' must be a positive value")
    ELSE Ok(Round2(amount.v))

\* Payment._validate_rate (the validator of 'payment')
Payment_validate_rate(payment) ==
    IF payment.t = "None" THEN Raise("BadRequest", "'payment' field required")
    ELSE IF payment.t # "str" \/ payment.v \notin {"made", "missed"}
         THEN Raise("BadRequest", "'payment' must be 'made' or 'missed'")
    ELSE Ok(payment.v)

\* Payment(**payload), loan_id set from the URL
Payment_init(loan_id, payload) ==
    LET d == Field(payload.date, validate_date(payload.date), Aware(0, 0))
        a == Field(payload.amount, Payment_validate_amount(payload.amount), 0)
        s == Field(payload.payment, Payment_validate_rate(payload.payment), "")
        err == FirstError(<<d, a, s>>)
    IN IF err.kind # "ok" THEN err
       ELSE Ok([loan_id |-> loan_id, date |-> d.val, amount |-> a.val,
                payment |-> s.val,
                unset |-> Unset(payload, {"date", "amount", "payment"})])

PaymentRow(p, id) ==
    [id |-> id, loan_id |-> p.loan_id, date |-> ToColumn(p.date),
     amount |-> p.amount, payment |-> p.payment]

\* line 291: loan.date.replace(tzinfo=tz.tzlocal()) > self.date
PriorToLoanDate(loan, date) ==
    Instant(Aware(loan.date, tzlocal)) > Instant(date)

\* Payment.create.  The result is [res, payments].
Payment_create(p) ==
    LET got == Loan_get(p.loan_id)
        same(res) == [res |-> res, payments |-> payments]
    IN IF got.kind # "ok" THEN same(got)
       ELSE IF "date" \in p.unset
            THEN same(Raise("TypeError", "can't compare datetime.datetime to NoneType"))
       ELSE IF PriorToLoanDate(got.val, p.date)
            THEN same(Raise("BadRequest", "Payment cannot be executed prior to loan date"))
       ELSE IF p.unset # {}
            THEN same(Raise("BadRequest", "Invalid payment record provided"))
       ELSE [res |-> Ok(Len(payments) + 1),
             payments |-> Append(payments, PaymentRow(p, Len(payments) + 1))]

\* The truth value of the until_date argument: None and "" are false.
Truthy(until_date) ==
    /\ until_date.t \notin {"None", "absent"}
    /\ ~(until_date.t = "str" /\ until_date.v = "")

\* Payment.date <= until_date: the string goes to the query as it was
\* received, and is compared by its wall-clock reading with the wall-clock
\* readings the column holds.
DateLeq(p, until_date) == p.date <= until_date.wall

\* Variant: a cutoff that leaves out the payments dated at the cutoff.
UntilFilter_strict(query, until_date) ==
    SelectSeq(query, LAMBDA p : p.date < until_date.wall)

\* line 319: query = query.filter(Payment.date <= until_date)
UntilFilter(query, until_date) ==
    SelectSeq(query, LAMBDA p : DateLeq(p, until_date))

\* line 323: query = query.filter(Payment.payment == "made")
MadeFilter(query) == SelectSeq(query, LAMBDA p : p.payment = "made")

\* Payment.list
Payment_list(loan_id, until_date, only_made) ==
    LET query == SelectSeq(payments, LAMBDA p : p.loan_id = loan_id)
    IN IF Truthy(until_date) /\ until_date.t # "date"
       THEN Raise("BadRequest", "Invalid 'until_date' provided, please use ISO-8601 standard")
       ELSE LET dated == IF Truthy(until_date) THEN UntilFilter(query, until_date)
                         ELSE query
            IN Ok(IF only_made THEN MadeFilter(dated) ELSE dated)

\* lines 100-102: the loop of fetch_balance, amounts in hundredths
RECURSIVE Subtract(_, _)
Subtract(balance, list) ==
    IF list = <<>> THEN balance
    ELSE Subtract(balance - Head(list).amount, Tail(list))

\* Variant: a balance that subtracts the 'missed' payments too.
fetch_balance_counts_missed(loan_id, until_date) ==
    LET got == Loan_get(loan_id)
    IN IF got.kind # "ok" THEN got
       ELSE LET list == Payment_list(loan_id, until_date, FALSE)
            IN IF list.kind # "ok" THEN list
               ELSE Ok(Subtract(got.val.amount * 100, list.val))

\* The body of fetch_balance, lines 94-104; the balance is in hundredths.
fetch_balance(loan_id, until_date) ==
    LET got == Loan_get(loan_id)
    IN IF got.kind # "ok" THEN got
       ELSE LET list == Payment_list(loan_id, until_date, TRUE)
            IN IF list.kind # "ok" THEN list
               ELSE Ok(Subtract(got.val.amount * 100, list.val))

(***************************************************************************)
(* Exact arithmetic on naturals of any size, for math.pow and the division *)
(* of calculate_installment: a natural is the sequence of its digits in    *)
(* base Base, least significant first, without leading zeros.              *)
(***************************************************************************)
Base == 10 ^ 4

RECURSIVE BFromInt(_)
BFromInt(n) == IF n = 0 THEN <<>> ELSE <<n % Base>> \o BFromInt(n \div Base)

RECURSIVE BStrip(_)
BStrip(a) ==
    IF a = <<>> THEN a
    ELSE IF a[Len(a)] = 0 THEN BStrip(SubSeq(a, 1, Len(a) - 1)) ELSE a

RECURSIVE BMulCarry(_, _, _)
BMulCarry(a, m, c) ==
    IF a = <<>> THEN BFromInt(c)
    ELSE LET v == Head(a) * m + c
         IN <<v % Base>> \o BMulCarry(Tail(a), m, v \div Base)

\* a * m, for 0 <= m < 200000
BMul(a, m) == IF m = 0 THEN <<>> ELSE BMulCarry(a, m, 0)

RECURSIVE BSubBorrow(_, _, _)
BSubBorrow(a, b, c) ==
    IF a = <<>> THEN <<>>
    ELSE LET y == (IF b = <<>> THEN 0 ELSE Head(b)) + c
             rest == IF b = <<>> THEN b ELSE Tail(b)
         IN IF Head(a) >= y
            THEN <<Head(a) - y>> \o BSubBorrow(Tail(a), rest, 0)
            ELSE <<Head(a) + Base - y>> \o BSubBorrow(Tail(a), rest, 1)

\* a - b, for a >= b
BSub(a, b) == BStrip(BSubBorrow(a, b, 0))

RECURSIVE BAddCarry(_, _, _)
BAddCarry(a, b, c) ==
    IF a = <<>> /\ b = <<>> THEN BFromInt(c)
    ELSE LET x == IF a = <<>> THEN 0 ELSE Head(a)
             y == IF b = <<>> THEN 0 ELSE Head(b)
             v == x + y + c
         IN <<v % Base>> \o BAddCarry(IF a = <<>> THEN a ELSE Tail(a),
                                      IF b = <<>> THEN b ELSE Tail(b), v \div Base)

BAdd(a, b) == BAddCarry(a, b, 0)

RECURSIVE BLeqFrom(_, _, _)
BLeqFrom(a, b, i) ==
    IF i = 0 THEN TRUE
    ELSE IF a[i] # b[i] THEN a[i] < b[i]
    ELSE BLeqFrom(a, b, i - 1)

\* a <= b
BLeq(a, b) ==
    IF Len(a) # Len(b) THEN Len(a) < Len(b) ELSE BLeqFrom(a, b, Len(a))

RECURSIVE BPow(_, _)
BPow(m, n) == IF n = 0 THEN <<1>> ELSE BMul(BPow(m, n - 1), m)

\* The largest digit d in lo..hi with d * b <= a (lo * b <= a is given).
RECURSIVE BDigit(_, _, _, _)
BDigit(a, b, lo, hi) ==
    IF lo = hi THEN lo
    ELSE LET mid == (lo + hi + 1) \div 2
         IN IF BLeq(BMul(b, mid), a) THEN BDigit(a, b, mid, hi)
            ELSE BDigit(a, b, lo, mid - 1)

\* Long division: digits i..1 of a still to bring down, rem the remainder
\* and q the quotient so far (q stays below 2^31 / Base).
RECURSIVE BDivFrom(_, _, _, _, _)
BDivFrom(a, b, i, rem, q) ==
    IF i = 0 THEN q
    ELSE LET r == BStrip(<<a[i]>> \o rem)
             d == BDigit(r, b, 0, Base - 1)
         IN BDivFrom(a, b, i - 1, BSub(r, BMul(b, d)), q * Base + d)

\* a \div b, for b > 0
BDiv(a, b) == BDivFrom(a, b, Len(a), <<>>, 0)

(***************************************************************************)
(* The amortised payment (r + r / ((1+r)^n - 1)) * amount for the monthly  *)
(* rate r = p / q, rounded to 2 decimals, in hundredths:                   *)
(*   r + r / ((1+r)^n - 1) = p * (p+q)^n / (q * ((p+q)^n - q^n)).          *)
(* The model computes the real number and rounds it half up; the code      *)
(* computes it in doubles.                                                 *)
(***************************************************************************)
Amortized(p, q, n, amount) ==
    LET Pn == BPow(p + q, n)
        num == BMul(BMul(BMul(Pn, p), amount), 100)
        den == BMul(BSub(Pn, BPow(q, n)), q)
    IN BDiv(BAdd(BMul(num, 2), den), BMul(den, 2))

\* Loan.calculate_installment: r = self.rate / 12, with self.rate the value
\* the validator kept (hundredths).  At r = 0 the divisor math.pow(1, n) - 1
\* is 0.0 and Python raises ZeroDivisionError.
calculate_installment(loan) ==
    IF loan.rate = 0 THEN Raise("ZeroDivisionError", "float division by zero")
    ELSE Ok(Amortized(loan.rate, 12 * 100, loan.term, loan.amount))

(***************************************************************************)
(* loan/app.py: the authentication wrapper and the handlers.               *)
(***************************************************************************)
\* Variant: a wrapper that lets the token of an unknown user through.
decorated_function_open(jwt_token) ==
    IF User_authenticate(jwt_token).kind = "Unauthorized" THEN Ok(0)
    ELSE User_authenticate(jwt_token)

\* authenticate (the decorator): the handler below it runs only when
\* User().authenticate(jwt_token) raised nothing.
decorated_function(jwt_token) == User_authenticate(jwt_token)

\* create_loan below the wrapper: Loan(**payload), create(), then the
\* installment of the response.  The result is [res, loans].
create_loan(payload) ==
    LET loan == Loan_init(payload)
    IN IF loan.kind # "ok" THEN [res |-> loan, loans |-> loans]
       ELSE LET made == Loan_create(loan.val)
                inst == calculate_installment(loan.val)
            IN [res |-> IF made.res.kind # "ok" THEN made.res
                        ELSE IF inst.kind # "ok" THEN inst
                        ELSE Ok([loan_id |-> made.res.val, installment |-> inst.val]),
                loans |-> made.loans]

\* create_payment below the wrapper.  The result is [res, payments].
create_payment(loan_id, payload) ==
    LET p == Payment_init(loan_id, payload)
    IN IF p.kind # "ok" THEN [res |-> p, payments |-> payments]
       ELSE Payment_create(p.val)

(***************************************************************************)
(* Inputs.                                                                 *)
(***************************************************************************)
Provisioned ==
    {[id |-> 1, email |-> "a@x", salt |-> "s1", h_password |-> hashpw("p1", "s1")]}

PasswordInputs == {Str(p) : p \in Passwords} \cup {None}

Forge(key, payload) == jwt_encode(payload, key)
ForgedExp == {300, 900}
ForgedTokens ==
    {[t |-> "None"], [t |-> "empty"], [t |-> "garbage"]}
    \cup {Forge(k, [user_id |-> u, exp |-> e]) :
             k \in {JWT_SECRET, "other"}, u \in {1, 99}, e \in ForgedExp}
    \cup {Forge(k, [exp |-> e]) : k \in {JWT_SECRET, "other"}, e \in ForgedExp}

IssuedTokens == {i.token : i \in issued}

TickSteps == {300, 301}
LocalOffsets == {0, 1}

(***************************************************************************)
(* Actions.                                                                *)
(***************************************************************************)
Ledger == <<tzlocal, loans, payments, given>>

\* The service answers one call at a time: 'last' holds the call and its
\* outcome until Return hands it back.
Idle == last = NoResult

Return ==
    /\ ~Idle
    /\ last' = NoResult
    /\ UNCHANGED <<users, now, issued, Ledger>>

\* One row of users.csv through initdb_command, line 159:
\* User(email=row['email']).add(row['password']).  csv.DictReader hands the
\* password over as a string.
Register(email, password, salt) ==
    LET ok == User_validate_input(email)
    IN /\ Idle
       /\ users' = IF ok.kind = "ok" THEN User_add(ok.val, password, salt) ELSE users
       /\ last' = [op |-> "add", email |-> email, password |-> password,
                   salt |-> salt, res |-> IF ok.kind = "ok" THEN Ok(TRUE) ELSE ok]
       /\ UNCHANGED <<now, issued, Ledger>>

\* POST /login
Login(email, password) ==
    LET res == User_login(email, password)
        out == IF res.kind = "ok"
               THEN issued \cup {[token |-> res.val, iat |-> now, email |-> email]}
               ELSE issued
    IN /\ Idle
       /\ Cardinality(out) <= MaxTokens
       /\ issued' = out
       /\ last' = [op |-> "login", email |-> email, password |-> password, res |-> res]
       /\ UNCHANGED <<users, now, Ledger>>

\* A call of User().authenticate(jwt_token)
Authenticate(jwt_token) ==
    /\ Idle
    /\ last' = [op |-> "authenticate", token |-> jwt_token,
                res |-> User_authenticate(jwt_token)]
    /\ UNCHANGED <<users, now, issued, Ledger>>

\* Time passes.
Tick(d) ==
    /\ Idle
    /\ now + d <= MaxTime
    /\ now' = now + d
    /\ last' = last
    /\ UNCHANGED <<users, issued, Ledger>>

\* POST /loans
CreateLoan(jwt_token, payload) ==
    LET auth == decorated_function(jwt_token)
        out == IF auth.kind = "ok" THEN create_loan(payload)
               ELSE [res |-> auth, loans |-> loans]
        new == out.loans \ loans
    IN /\ Idle
       /\ Cardinality(out.loans) <= MaxLoans
       /\ loans' = out.loans
       /\ given' = IF new = {} THEN given
                   ELSE Append(given, Loan_init(payload).val.date)
       /\ last' = [op |-> "create_loan", token |-> jwt_token, payload |-> payload,
                   res |-> out.res]
       /\ UNCHANGED <<users, now, issued, tzlocal, payments>>

\* POST /loans/<loan_id>/payments
CreatePayment(jwt_token, loan_id, payload) ==
    LET auth == decorated_function(jwt_token)
        out == IF auth.kind = "ok" THEN create_payment(loan_id, payload)
               ELSE [res |-> auth, payments |-> payments]
    IN /\ Idle
       /\ Len(out.payments) <= MaxPayments
       /\ payments' = out.payments
       /\ last' = [op |-> "create_payment", token |-> jwt_token, loan_id |-> loan_id,
                   payload |-> payload, res |-> out.res]
       /\ UNCHANGED <<users, now, issued, tzlocal, loans, given>>

\* GET /loans/<loan_id>/balance
FetchBalance(jwt_token, loan_id, until_date) ==
    LET auth == decorated_function(jwt_token)
    IN /\ Idle
       /\ last' = [op |-> "fetch_balance", token |-> jwt_token, loan_id |-> loan_id,
                   until_date |-> until_date,
                   res |-> IF auth.kind = "ok" THEN fetch_balance(loan_id, until_date)
                           ELSE auth]
       /\ UNCHANGED <<users, now, issued, Ledger>>

\* A call of Payment().list(loan_id, until_date, only_made)
ListPayments(loan_id, until_date, only_made) ==
    /\ Idle
    /\ last' = [op |-> "list", loan_id |-> loan_id, until_date |-> until_date,
                only_made |-> only_made,
                res |-> Payment_list(loan_id, until_date, only_made)]
    /\ UNCHANGED <<users, now, issued, Ledger>>

(***************************************************************************)
(* Request inputs.                                                         *)
(***************************************************************************)
EmailInputs == {Str(e) : e \in Emails \cup BadEmails} \cup {None}

LoanPayload(a, n, r, d) == [amount |-> a, term |-> n, rate |-> r, date |-> d]
PaymentPayload(d, a, s) == [date |-> d, amount |-> a, payment |-> s]

\* The loan ids a request may name: the stored ones and one that is not.
LoanIds == 1..(Cardinality(loans) + 1)

GoodLoan == LoanPayload(Int_(10), Int_(2), Float(50), NaiveStr(1))
BadLoans ==
    {LoanPayload(None, Int_(2), Float(50), NaiveStr(1)),
     LoanPayload(Int_(10), Int_(2), Absent, NaiveStr(1)),
     LoanPayload(Int_(10), Int_(2), Float(50), BadDateStr)}

BadPayments ==
    {PaymentPayload(None, Float(1004), Str("made")),
     PaymentPayload(Absent, Float(1004), Str("made")),
     PaymentPayload(NaiveStr(2), Absent, Str("made")),
     PaymentPayload(NaiveStr(2), Float(0 - 1004), Str("made")),
     PaymentPayload(NaiveStr(2), Float(1004), Str("late")),
     PaymentPayload(NaiveStr(0), Float(1004), Str("made"))}

\* The ledger on its own: naive dates, every status, every cutoff.
LedgerLoans == {GoodLoan} \cup BadLoans
LedgerPayments ==
    {PaymentPayload(NaiveStr(w), Float(1004), Str(s)) :
        w \in {1, 2}, s \in {"made", "missed"}}
    \cup {PaymentPayload(NaiveStr(2), Float(2496), Str("made")),
          PaymentPayload(DateStr(2, 1), Float(1004), Str("missed"))}
    \cup BadPayments
UntilDates ==
    {None, Str(""), BadDateStr, NaiveStr(0), NaiveStr(1), NaiveStr(2), DateStr(1, 1)}

\* Dates with UTC offsets.
ZonedLoans ==
    {LoanPayload(Int_(10), Int_(2), Float(50), d) :
        d \in {NaiveStr(2), DateStr(2, 0), DateStr(2, 1)}}
ZonedPayments ==
    {PaymentPayload(d, a, Str("made")) :
        d \in {NaiveStr(1), NaiveStr(2), DateStr(1, 0), DateStr(2, 0), DateStr(3, 0),
               DateStr(1, 1), DateStr(2, 1), DateStr(3, 1)},
        a \in {Float(1004), Absent, Int_(1)}}

\* The service behind its wrapper.
GateTokens ==
    IssuedTokens
    \cup {[t |-> "None"], [t |-> "garbage"], Forge("other", [user_id |-> 1, exp |-> 900]),
          Forge(JWT_SECRET, [user_id |-> 1, exp |-> 300]),
          Forge(JWT_SECRET, [user_id |-> 99, exp |-> 900]),
          Forge(JWT_SECRET, [exp |-> 900])}
GateLoans == {GoodLoan, LoanPayload(None, Int_(2), Float(50), NaiveStr(1))}
GatePayments ==
    {PaymentPayload(NaiveStr(2), Float(1004), Str("made")),
     PaymentPayload(NaiveStr(2), Float(1004), Str("missed")),
     PaymentPayload(NaiveStr(0), Float(1004), Str("made"))}
GateUntil == {None, NaiveStr(1)}

(***************************************************************************)
(* Specifications.                                                         *)
(***************************************************************************)
FirstToken ==
    [token |-> jwt_encode([user_id |-> 1, exp |-> JWT_EXP_DELTA_SECONDS], JWT_SECRET),
     iat |-> 0, email |-> "a@x"]

NoLedger == loans = {} /\ payments = <<>> /\ given = <<>>

\* The service as its clients reach it: login and the three wrapped handlers,
\* the users provisioned by initdb, at a time when tokens with exp = 300 have
\* expired and tokens with exp = 900 have not.
Init ==
    /\ users = Provisioned /\ now = 301 /\ issued = {} /\ tzlocal = 0
    /\ NoLedger /\ last = NoResult

Next ==
    \/ \E e \in Emails, p \in PasswordInputs : Login(e, p)
    \/ \E tk \in GateTokens, pl \in GateLoans : CreateLoan(tk, pl)
    \/ \E tk \in GateTokens, id \in LoanIds, pl \in GatePayments : CreatePayment(tk, id, pl)
    \/ \E tk \in GateTokens, id \in LoanIds, u \in GateUntil : FetchBalance(tk, id, u)
    \/ Return

Spec == Init /\ [][Next]_vars

\* The users table: provisioning and login.
InitStore ==
    /\ users = {} /\ now = 0 /\ issued = {} /\ tzlocal = 0
    /\ NoLedger /\ last = NoResult

NextStore ==
    \/ \E e \in EmailInputs, p \in Passwords, s \in Salts : Register(e, p, s)
    \/ \E e \in Emails \cup BadEmails, p \in PasswordInputs : Login(e, p)
    \/ Return

SpecStore == InitStore /\ [][NextStore]_vars

\* The life of a token: login, authenticate, the clock.
InitToken ==
    /\ users = Provisioned /\ now = 0 /\ issued = {} /\ tzlocal = 0
    /\ NoLedger /\ last = NoResult

NextToken ==
    \/ \E e \in Emails, p \in PasswordInputs : Login(e, p)
    \/ \E tk \in ForgedTokens \cup IssuedTokens : Authenticate(tk)
    \/ \E d \in TickSteps : Tick(d)
    \/ Return

SpecToken == InitToken /\ [][NextToken]_vars

\* The ledger, called by a logged-in client.
InitLedger ==
    /\ users = Provisioned /\ now = 0 /\ issued = {FirstToken} /\ tzlocal = 0
    /\ NoLedger /\ last = NoResult

NextLedger ==
    \/ \E tk \in IssuedTokens, pl \in LedgerLoans : CreateLoan(tk, pl)
    \/ \E tk \in IssuedTokens, id \in LoanIds, pl \in LedgerPayments :
          CreatePayment(tk, id, pl)
    \/ \E tk \in IssuedTokens, id \in LoanIds, u \in UntilDates : FetchBalance(tk, id, u)
    \/ \E id \in LoanIds, u \in UntilDates, m \in BOOLEAN : ListPayments(id, u, m)
    \/ Return

SpecLedger == InitLedger /\ [][NextLedger]_vars

\* Loans and payments dated in different time zones.
InitZoned ==
    /\ users = Provisioned /\ now = 0 /\ issued = {FirstToken}
    /\ tzlocal \in LocalOffsets /\ NoLedger /\ last = NoResult

NextZoned ==
    \/ \E tk \in IssuedTokens, pl \in ZonedLoans : CreateLoan(tk, pl)
    \/ \E tk \in IssuedTokens, id \in LoanIds, pl \in ZonedPayments :
          CreatePayment(tk, id, pl)
    \/ Return

SpecZoned == InitZoned /\ [][NextZoned]_vars

\* The first POST /loans of a logged-in client, over a wide range of payloads.
CalcPayloads ==
    {LoanPayload(a, n, r, NaiveStr(1)) :
        a \in {None, Int_(0), Int_(1), Int_(1000), Float(1000)},
        n \in {None, Int_(0), Int_(1), Int_(12)},
        r \in {None, Int_(1), Float(0), Float(4), Float(10), Float(50), Float(54),
               Float(1000), Float(1004)}}

NextInstallment == \E tk \in IssuedTokens, pl \in CalcPayloads : CreateLoan(tk, pl)

SpecInstallment == InitLedger /\ [][NextInstallment]_vars

\* Every way a POST /loans or a POST /loans/<loan_id>/payments can end:
\* the ledger's payloads and a loan whose rate is below half a hundredth.
AtomicLoans ==
    LedgerLoans \cup {LoanPayload(Int_(10), Int_(2), Float(4), NaiveStr(1))}

NextAtomic ==
    \/ \E tk \in IssuedTokens, pl \in AtomicLoans : CreateLoan(tk, pl)
    \/ \E tk \in IssuedTokens, id \in LoanIds, pl \in LedgerPayments :
          CreatePayment(tk, id, pl)
    \/ Return

SpecAtomic == InitLedger /\ [][NextAtomic]_vars

(***************************************************************************)
(* Properties.                                                             *)
(***************************************************************************)
HasUntil(until_date) == until_date.t = "date"
NoUntil(until_date) == until_date.t = "None" \/ until_date = Str("")

RECURSIVE SumAmounts(_)
SumAmounts(S) ==
    IF S = {} THEN 0
    ELSE LET i == CHOOSE x \in S : TRUE
         IN payments[i].amount + SumAmounts(S \ {i})

\* The payments a balance counts: of the loan, made, dated up to the cutoff.
Counted(loan_id, until_date) ==
    {i \in 1..Len(payments) :
        /\ payments[i].loan_id = loan_id
        /\ payments[i].payment = "made"
        /\ HasUntil(until_date) => payments[i].date <= until_date.wall}

Passes(token) == User_authenticate(token).kind = "ok"

Handlers == {"create_loan", "create_payment", "fetch_balance"}

\* C2: a loan or a payment is stored, or a balance returned, only by a
\* request whose token passes authorize; a request whose token fails it
\* changes no loan and no payment and returns no balance.
C2_Gate ==
    [][/\ (loans' # loans \/ payments' # payments
            \/ (last'.op = "fetch_balance" /\ last'.res.kind = "ok"))
          => (last'.op \in Handlers /\ Passes(last'.token))
       /\ (last'.op \in Handlers /\ ~Passes(last'.token))
          => (/\ loans' = loans
              /\ payments' = payments
              /\ last'.res.kind \in {"Forbidden", "BadRequest", "Unauthorized"})]_vars

\* A balance asked for an existing loan with a token of an unknown user.
C2_Witness ==
    /\ last.op = "fetch_balance"
    /\ LoanById(last.loan_id) # {}
    /\ last.res.kind = "Unauthorized"

\* C3: a token of login carries exp = time of issue + 600 and the id of the
\* user who logged in; authenticate accepts it, for that user, at every time
\* before exp and rejects it at every time after exp.
C3_TokenLifetime ==
    /\ \A i \in issued :
          /\ i.token.payload.exp = i.iat + 600
          /\ \E u \in UserByEmail(i.email) : u.id = i.token.payload.user_id
    /\ (last.op = "authenticate" /\ last.token \in IssuedTokens)
       => /\ now < last.token.payload.exp => last.res = Ok(last.token.payload.user_id)
          /\ now > last.token.payload.exp => last.res.kind # "ok"

\* An issued token presented after its expiry.
C3_Witness ==
    /\ last.op = "authenticate"
    /\ last.token \in IssuedTokens
    /\ now > last.token.payload.exp
    /\ last.res.kind # "ok"

SignedUnexpired(token) ==
    /\ token.t = "jwt"
    /\ token.key = JWT_SECRET
    /\ token.payload.exp >= now

HasUserId(token) == "user_id" \in DOMAIN token.payload

\* C4: no token or an empty one is MissingToken (Forbidden, "Access
\* denied"); a signed, unexpired token without user id is CorruptedToken
\* (BadRequest, "Token is corrupted"); a signed, unexpired token of a user
\* that is not stored is Unauthorized, and nothing else is; only a signed,
\* unexpired token of a stored user is authorized.
C4_AuthorizeOrder ==
    last.op = "authenticate" =>
    LET token == last.token
        res == last.res
    IN /\ token.t \in {"None", "empty"} => res = Raise("Forbidden", "Access denied")
       /\ (SignedUnexpired(token) /\ ~HasUserId(token))
          => res = Raise("BadRequest", "Token is corrupted")
       /\ res.kind = "Unauthorized"
          <=> (/\ SignedUnexpired(token) /\ HasUserId(token)
               /\ UserById(token.payload.user_id) = {})
       /\ res.kind = "ok"
          <=> (/\ SignedUnexpired(token) /\ HasUserId(token)
               /\ UserById(token.payload.user_id) # {})

\* A signed, unexpired token of an unknown user, refused as Unauthorized.
C4_Witness ==
    /\ last.op = "authenticate"
    /\ last.res.kind = "Unauthorized"
    /\ SignedUnexpired(last.token)

\* C5: a token whose signature does not verify and a signed token that has
\* expired are refused with the same error and the same message, "Token is
\* invalid".
C5_SameMessage ==
    (/\ last.op = "authenticate"
     /\ \/ last.token.t = "garbage"
        \/ last.token.t = "jwt" /\ last.token.key # JWT_SECRET
        \/ last.token.t = "jwt" /\ last.token.key = JWT_SECRET
           /\ last.token.payload.exp < now)
    => last.res = Raise("BadRequest", "Token is invalid")

\* C6: a login that fails for a registered email fails exactly as it does
\* on the users table without that email: same error, same message
\* "User '<email>' login failed".
C6_NoLeak ==
    (/\ last.op = "login"
     /\ last.res.kind # "ok"
     /\ UserByEmail(last.email) # {})
    => LET other == User_login_in(users \ UserByEmail(last.email),
                                  last.email, last.password)
       IN /\ last.res.kind = other.kind
          /\ last.res.msg = other.msg
          /\ last.res = Raise("BadRequest", <<"User '", last.email, "' login failed">>)

\* C7: a payment dated at an instant before the instant its loan was
\* created with is refused with BadRequest, whatever its other fields.
C7_PriorPaymentRejected ==
    (/\ last.op = "create_payment"
     /\ LoanById(last.loan_id) # {}
     /\ last.payload.date.t = "date"
     /\ Instant(format_date(last.payload.date).val) < Instant(given[last.loan_id]))
    => last.res.kind = "BadRequest"

Accepted(payload) ==
    /\ payload.amount.t = "int" /\ payload.amount.v > 0
    /\ payload.term.t = "int" /\ payload.term.v > 0
    /\ payload.rate.t = "float" /\ payload.rate.v > 0 /\ payload.rate.v <= 1000
    /\ payload.date.t = "date"

\* C9: for every accepted (amount, term, rate) the installment returned is
\* (r + r / ((1+r)^term - 1)) * amount rounded to 2 decimals with
\* r = rate / 12 for the rate of the request (in thousandths: r = rate/12000).
C9_Installment ==
    (last.op = "create_loan" /\ Accepted(last.payload))
    => /\ last.res.kind = "ok"
       /\ last.res.val.installment =
             Amortized(last.payload.rate.v, 12 * 1000, last.payload.term.v,
                       last.payload.amount.v)

\* C10: adding a user whose email is already stored leaves the users table
\* as it is and raises nothing; the table never holds two rows of one email.
C10_RegisterIdempotent ==
    [][/\ (/\ last'.op = "add"
           /\ last'.email.t = "str"
           /\ UserByEmail(last'.email.v) # {})
          => (users' = users /\ last'.res.kind = "ok")
       /\ \A e \in Emails : Cardinality({u \in users' : u.email = e}) <= 1]_vars

\* A second add of a stored email, with another salt: the row is the old one.
C10_Witness ==
    /\ last.op = "add"
    /\ last.email.t = "str"
    /\ last.res.kind = "ok"
    /\ \E u \in users : u.email = last.email.v /\ u.salt # last.salt

\* The payloads createPayment's validation accepts.
AcceptedPayment(payload) ==
    /\ payload.date.t = "date"
    /\ payload.amount.t = "float" /\ payload.amount.v > 0
    /\ payload.payment.t = "str" /\ payload.payment.v \in {"made", "missed"}

\* A stored row whose every field meets its validator's condition.
ValidLoanRow(l) ==
    l.amount > 0 /\ l.term > 0 /\ l.rate > 0 /\ l.rate <= 100
ValidPaymentRow(p, table) ==
    /\ p.amount > 0
    /\ p.payment \in {"made", "missed"}
    /\ \E l \in table : l.id = p.loan_id

\* C11: a createLoan or createPayment call either succeeds and stores
\* exactly one entity, fully validated, or fails and leaves the stored loans
\* and payments as they were; a call with a field missing or invalid and a
\* payment for a loan that does not exist store nothing.
C11_Atomic ==
    [][(last'.op \in {"create_loan", "create_payment"}) =>
       /\ \/ /\ last'.res.kind = "ok"
             /\ loans \subseteq loans'
             /\ SubSeq(payments', 1, Len(payments)) = payments
             /\ Cardinality(loans' \ loans) + Len(payments') - Len(payments) = 1
             /\ \A l \in loans' \ loans : ValidLoanRow(l)
             /\ \A i \in (Len(payments) + 1)..Len(payments') :
                   ValidPaymentRow(payments'[i], loans')
          \/ /\ last'.res.kind # "ok"
             /\ loans' = loans
             /\ payments' = payments
       /\ (last'.op = "create_loan" /\ ~Accepted(last'.payload)) => loans' = loans
       /\ (last'.op = "create_payment"
           /\ (LoanById(last'.loan_id) = {} \/ ~AcceptedPayment(last'.payload)))
          => payments' = payments]_vars

\* C12: for every rate createLoan's validation accepts, the rate kept on the
\* loan and used by the formula is strictly positive: the installment
\* computation never runs with r = 0 (it never divides by zero), and every
\* stored loan has its rate in (0, 1] (in hundredths: 1..100).
C12_RatePositive ==
    /\ \A l \in loans : l.rate > 0 /\ l.rate <= 100
    /\ (/\ last.op = "create_loan"
        /\ last.payload.rate.t # "absent"
        /\ Loan_validate_rate(last.payload.rate).kind = "ok")
       => /\ Loan_validate_rate(last.payload.rate).val > 0
          /\ last.res.kind # "ZeroDivisionError"

====
